---- MODULE Spec2Model ----
\* Model of electrum/gui/qt/transaction_wait_dialog.py: one TimeoutWaitDialog
\* (a "session"), the module-level registry `dialogs`, the shared cosigner
\* pool server (lock store) and the one-second QTimer that drives the dialog.
EXTENDS Integers, Sequences, FiniteSets, TLC

\* ---------------------------------------------------------------- bounds
\* the timer is followed while the countdown is above -MaxNeg
MaxNeg == 22
\* largest number of timer callbacks followed in one behaviour
MaxTicks == 36

\* ---------------------------------------------------------------- constants
DURATION_INT == 60 * 10

\* fingerprints (sha256d of the compressed master public key, hex)
Fingerprints == {"h1", "h2"}
\* None / empty value of the store: falsy in Python
None == ""
\* values the '_lock' key of a fingerprint can hold: None or a timestamp
LockValues == {None, "397", "412"}
\* the display name a cosigner publishes under its '_name' key
NameOf(h) == IF h = "h1" THEN "alice" ELSE "bob"
\* values server.get_current_time() returns at session creation
Times == {1000, 1002, 1012}
\* keys of the store: fingerprint + '_lock' / fingerprint + '_name'
Keys == Fingerprints \X {"_lock", "_name"}

\* Python truthiness of a value returned by server.get
Truthy(v) == v # None

\* int(expire) for the timestamps of LockValues
int(s) == CASE s = "397" -> 397 [] s = "412" -> 412 [] OTHER -> 0

\* the wallets a dialog is opened for: keystores in dict order, each either
\* watching-only (a cosigner) or able to sign; a non-multisig wallet
Keystore(h, w) == [fp |-> h, watching_only |-> w]
Wallets ==
    { [multisig |-> TRUE,  keystores |-> <<Keystore("h1", TRUE),  Keystore("h2", TRUE)>>],
      [multisig |-> TRUE,  keystores |-> <<Keystore("h1", TRUE),  Keystore("h2", FALSE)>>],
      [multisig |-> TRUE,  keystores |-> <<Keystore("h1", FALSE), Keystore("h2", TRUE)>>],
      [multisig |-> TRUE,  keystores |-> <<Keystore("h1", FALSE), Keystore("h2", FALSE)>>],
      [multisig |-> FALSE, keystores |-> <<Keystore("h1", FALSE)>>] }

\* h is the fingerprint of a watching-only keystore of wallet w
Watched(w, h) ==
    \E i \in 1..Len(w.keystores) : w.keystores[i].fp = h /\ w.keystores[i].watching_only

VARIABLES
    wallet,       \* parent.wallet
    store,        \* contents of the shared server, [Keys -> value]
    pc,           \* "none": no dialog object, "live": constructed, "gone": destroyed
    d,            \* the fields of the TimeoutWaitDialog object
    dialogs,      \* the module-level list `dialogs`
    reads,        \* history: keys passed to server.get by the last handler
    raised,       \* history: the last handler ended with an uncaught exception
    closedBy,     \* history: which call of close() hid the dialog
    sawUnlocked,  \* history: some poll of update() found no lock present
    seeded,       \* history: time_left_int after the loop of lines 152-156
    seedNow,      \* history: server.get_current_time() seen by __init__
    ticks,        \* history: number of timer_timeout calls since creation
    quiet,        \* history: consecutive ticks of the open dialog, none failed,
                  \* during which no watched lock was in the store, up to
                  \* the last handler
    last          \* history: the last handler that ran

vars == <<wallet, store, pc, d, dialogs, reads, raised, closedBy, sawUnlocked,
          seeded, seedNow, ticks, quiet, last>>

\* the object id under which the dialog is held in `dialogs`
Self == "d"

\* fields of a dialog before __init__ has assigned them
Blank ==
    [ locks |-> <<>>, currently_signing |-> None, timed_out |-> FALSE,
      keyhashes |-> {}, cosigner_list |-> {}, time_left_int |-> 0,
      visible |-> FALSE, timer |-> FALSE ]

\* the part of the state a handler works on
Machine == [ d |-> d, dialogs |-> dialogs, reads |-> {}, raised |-> FALSE,
             closedBy |-> closedBy, sawUnlocked |-> sawUnlocked ]

\* ---------------------------------------------------------------- helpers
\* list.remove(x): drops the first occurrence; ValueError when absent
RECURSIVE remove(_, _)
remove(s, x) ==
    IF s = <<>> THEN <<>>
    ELSE IF Head(s) = x THEN Tail(s)
    ELSE <<Head(s)>> \o remove(Tail(s), x)

\* closeEvent without the try/except around dialogs.remove
close_uncaught(m, who) ==
    [m EXCEPT !.d.visible = FALSE,
              !.dialogs = remove(@, Self),
              !.raised = @ \/ (\A i \in 1..Len(m.dialogs) : m.dialogs[i] # Self),
              !.closedBy = IF m.d.visible \/ @ = "none" THEN who ELSE @]

\* closeEvent, reached through QWidget.close(): the event is accepted, the
\* dialog is hidden and dropped from `dialogs` (ValueError is swallowed)
close(m, who) ==
    [m EXCEPT !.d.visible = FALSE,
              !.dialogs = remove(@, Self),
              !.closedBy = IF m.d.visible \/ @ = "none" THEN who ELSE @]

\* update() resetting the countdown to the full duration instead of 0
update_reset(m, st, up) ==
    IF m.d.time_left_int % 10 = 0
    THEN LET polled == {<<h, "_lock">> : h \in m.d.cosigner_list}
             lock_present == \E h \in m.d.cosigner_list : Truthy(st[<<h, "_lock">>])
         IN  IF polled # {} /\ ~up
             THEN [m EXCEPT !.reads = @ \cup polled, !.raised = TRUE]
             ELSE IF ~lock_present
                  THEN close([m EXCEPT !.reads = @ \cup polled,
                                       !.sawUnlocked = TRUE,
                                       !.d.time_left_int = DURATION_INT], "update")
                  ELSE [m EXCEPT !.reads = @ \cup polled]
    ELSE m

\* update() closing the dialog without forcing the countdown to 0
update_noforce(m, st, up) ==
    IF m.d.time_left_int % 10 = 0
    THEN LET polled == {<<h, "_lock">> : h \in m.d.cosigner_list}
             lock_present == \E h \in m.d.cosigner_list : Truthy(st[<<h, "_lock">>])
         IN  IF polled # {} /\ ~up
             THEN [m EXCEPT !.reads = @ \cup polled, !.raised = TRUE]
             ELSE IF ~lock_present
                  THEN close([m EXCEPT !.reads = @ \cup polled,
                                       !.sawUnlocked = TRUE], "update")
                  ELSE [m EXCEPT !.reads = @ \cup polled]
    ELSE m

\* update() clearing the signer name when it finds no lock
update_clearname(m, st, up) ==
    IF m.d.time_left_int % 10 = 0
    THEN LET polled == {<<h, "_lock">> : h \in m.d.cosigner_list}
             lock_present == \E h \in m.d.cosigner_list : Truthy(st[<<h, "_lock">>])
         IN  IF polled # {} /\ ~up
             THEN [m EXCEPT !.reads = @ \cup polled, !.raised = TRUE]
             ELSE IF ~lock_present
                  THEN close([m EXCEPT !.reads = @ \cup polled,
                                       !.sawUnlocked = TRUE,
                                       !.d.currently_signing = None,
                                       !.d.time_left_int = 0], "update")
                  ELSE [m EXCEPT !.reads = @ \cup polled]
    ELSE m

\* update() polling on every call, without the test of the cadence
update_everytick(m, st, up) ==
    LET polled == {<<h, "_lock">> : h \in m.d.cosigner_list}
        lock_present == \E h \in m.d.cosigner_list : Truthy(st[<<h, "_lock">>])
    IN  IF polled # {} /\ ~up
        THEN [m EXCEPT !.reads = @ \cup polled, !.raised = TRUE]
        ELSE IF ~lock_present
             THEN close([m EXCEPT !.reads = @ \cup polled,
                                  !.sawUnlocked = TRUE,
                                  !.d.time_left_int = 0], "update")
             ELSE [m EXCEPT !.reads = @ \cup polled]

\* update() polling only while the countdown is above 0
update_positive_only(m, st, up) ==
    IF m.d.time_left_int > 0 /\ m.d.time_left_int % 10 = 0
    THEN LET polled == {<<h, "_lock">> : h \in m.d.cosigner_list}
             lock_present == \E h \in m.d.cosigner_list : Truthy(st[<<h, "_lock">>])
         IN  IF polled # {} /\ ~up
             THEN [m EXCEPT !.reads = @ \cup polled, !.raised = TRUE]
             ELSE IF ~lock_present
                  THEN close([m EXCEPT !.reads = @ \cup polled,
                                       !.sawUnlocked = TRUE,
                                       !.d.time_left_int = 0], "update")
                  ELSE [m EXCEPT !.reads = @ \cup polled]
    ELSE m

\* the first lines of update(): the poll of the lock store; `up` is FALSE when
\* server.get raises
update(m, st, up) ==
    IF m.d.time_left_int % 10 = 0
    THEN LET polled == {<<h, "_lock">> : h \in m.d.cosigner_list}
             lock_present == \E h \in m.d.cosigner_list : Truthy(st[<<h, "_lock">>])
         IN  IF polled # {} /\ ~up
             THEN [m EXCEPT !.reads = @ \cup polled, !.raised = TRUE]
             ELSE IF ~lock_present
                  THEN close([m EXCEPT !.reads = @ \cup polled,
                                       !.sawUnlocked = TRUE,
                                       !.d.time_left_int = 0], "update")
                  ELSE [m EXCEPT !.reads = @ \cup polled]
    ELSE m

\* timer_timeout testing for the last second one tick early
timer_timeout_early(m, st, up) ==
    LET m1 == [m EXCEPT !.d.time_left_int = @ - 1]
        m2 == IF m1.d.time_left_int = 1 /\ m1.d.visible
              THEN close([m1 EXCEPT !.d.timed_out = TRUE], "timeout")
              ELSE m1
    IN  update(m2, st, up)

\* timer_timeout without the isVisible() test
timer_timeout_novis(m, st, up) ==
    LET m1 == [m EXCEPT !.d.time_left_int = @ - 1]
        m2 == IF m1.d.time_left_int = 0
              THEN close([m1 EXCEPT !.d.timed_out = TRUE], "timeout")
              ELSE m1
    IN  update(m2, st, up)

\* timer_timeout calling update() before the test for zero
timer_timeout_pollfirst(m, st, up) ==
    LET m1 == update([m EXCEPT !.d.time_left_int = @ - 1], st, up)
    IN  IF m1.raised THEN m1
        ELSE IF m1.d.time_left_int = 0 /\ m1.d.visible
             THEN close([m1 EXCEPT !.d.timed_out = TRUE], "timeout")
             ELSE m1

\* timer_timeout: the slot of the one-second QTimer
timer_timeout(m, st, up) ==
    LET m1 == [m EXCEPT !.d.time_left_int = @ - 1]
        m2 == IF m1.d.time_left_int = 0 /\ m1.d.visible
              THEN close([m1 EXCEPT !.d.timed_out = TRUE], "timeout")
              ELSE m1
    IN  update(m2, st, up)

\* timer_start: creates and starts the QTimer, then calls update()
timer_start(m, st, up) ==
    update([m EXCEPT !.d.timer = TRUE], st, up)

\* the keystore loop reading the lock of every keystore, signers included
RECURSIVE keystore_loop_readall(_, _, _, _)
keystore_loop_readall(ks, i, m, st) ==
    IF i > Len(ks) THEN m
    ELSE LET h  == ks[i].fp
             lk == st[<<h, "_lock">>]
             nm == st[<<h, "_name">>]
             m0 == [m EXCEPT !.reads = @ \cup {<<h, "_lock">>}]
             m1 == [m0 EXCEPT !.d.cosigner_list = @ \cup {h},
                              !.d.locks = Append(@, <<h, lk>>)]
             m2 == IF Truthy(lk)
                   THEN [m1 EXCEPT !.reads = @ \cup {<<h, "_name">>},
                                   !.d.currently_signing = IF Truthy(nm) THEN nm ELSE @]
                   ELSE m1
         IN  IF ~ks[i].watching_only
             THEN keystore_loop_readall(ks, i + 1, [m0 EXCEPT !.d.keyhashes = @ \cup {h}], st)
             ELSE keystore_loop_readall(ks, i + 1, m2, st)

\* the loop over wallet.keystores of __init__ (lines 96-109)
RECURSIVE keystore_loop(_, _, _, _)
keystore_loop(ks, i, m, st) ==
    IF i > Len(ks) THEN m
    ELSE LET h  == ks[i].fp
             lk == st[<<h, "_lock">>]
             nm == st[<<h, "_name">>]
             m1 == [m EXCEPT !.d.cosigner_list = @ \cup {h},
                             !.d.locks = Append(@, <<h, lk>>),
                             !.reads = @ \cup {<<h, "_lock">>}]
             m2 == IF Truthy(lk)
                   THEN [m1 EXCEPT !.reads = @ \cup {<<h, "_name">>},
                                   !.d.currently_signing = IF Truthy(nm) THEN nm ELSE @]
                   ELSE m1
         IN  IF ~ks[i].watching_only
             THEN keystore_loop(ks, i + 1, [m EXCEPT !.d.keyhashes = @ \cup {h}], st)
             ELSE keystore_loop(ks, i + 1, m2, st)

\* the seeding loop stopping at the first lock that carries a value
RECURSIVE seed_loop_first(_, _, _, _)
seed_loop_first(locks, i, t, now) ==
    IF i > Len(locks) THEN t
    ELSE LET expire == locks[i][2]
         IN  IF Truthy(expire)
             THEN DURATION_INT - (now - int(expire))
             ELSE seed_loop_first(locks, i + 1, t, now)

\* the loop over self.locks.items() of __init__ (lines 152-156)
RECURSIVE seed_loop(_, _, _, _)
seed_loop(locks, i, t, now) ==
    IF i > Len(locks) THEN t
    ELSE LET expire == locks[i][2]
         IN  IF Truthy(expire)
             THEN seed_loop(locks, i + 1, DURATION_INT - (now - int(expire)), now)
             ELSE seed_loop(locks, i + 1, t, now)

\* __init__ raises out of server.get when the store is unreachable and some
\* keystore is watched
init_raises(w, up) ==
    /\ ~up
    /\ w.multisig
    /\ \E h \in Fingerprints : Watched(w, h)

\* __init__ up to the seeding of the countdown (lines 84-156)
init_seed(m, w, st, now) ==
    LET m1 == IF w.multisig THEN keystore_loop(w.keystores, 1, m, st) ELSE m
    IN  [m1 EXCEPT !.d.time_left_int = seed_loop(m1.d.locks, 1, DURATION_INT, now)]

\* __init__ from timer_start() on (lines 158-159)
init_tail(m, st, up) == update(timer_start(m, st, up), st, up)

\* the else branch of show_timeout_wait_dialog: dialogs.append(d); d.show()
show(m) == [m EXCEPT !.dialogs = Append(@, Self), !.d.visible = TRUE]

\* no fingerprint of the watched set has a truthy '_lock' value in the store
NoLockHeld(watched, st) == \A h \in watched : ~Truthy(st[<<h, "_lock">>])

\* ---------------------------------------------------------------- actions
Init ==
    /\ wallet \in Wallets
    /\ store \in [Keys -> LockValues \cup {"alice", "bob"}]
    /\ \A h \in Fingerprints :
          /\ store[<<h, "_lock">>] \in LockValues
          /\ store[<<h, "_name">>] \in {None, NameOf(h)}
          /\ ~Watched(wallet, h) => /\ store[<<h, "_lock">>] = "412"
                                   /\ store[<<h, "_name">>] = NameOf(h)
    /\ pc = "none"
    /\ d = Blank
    /\ dialogs = <<>>
    /\ reads = {}
    /\ raised = FALSE
    /\ closedBy = "none"
    /\ sawUnlocked = FALSE
    /\ seeded = 0
    /\ seedNow = 0
    /\ ticks = 0
    /\ quiet = 0
    /\ last = "none"

Commit(m) ==
    /\ d' = m.d
    /\ dialogs' = m.dialogs
    /\ reads' = m.reads
    /\ raised' = m.raised
    /\ closedBy' = m.closedBy
    /\ sawUnlocked' = m.sawUnlocked

\* the transaction deserialized only after the keystore loop has read the store
CreateUndeserializable_late ==
    /\ pc = "none"
    /\ last' = "create_serr"
    /\ reads' = IF wallet.multisig
                THEN {<<h, "_lock">> : h \in {g \in Fingerprints : Watched(wallet, g)}}
                ELSE {}
    /\ raised' = FALSE
    /\ UNCHANGED <<wallet, store, pc, d, dialogs, closedBy, sawUnlocked,
                   seeded, seedNow, ticks, quiet>>

\* show_timeout_wait_dialog with a transaction that fails to deserialize
CreateUndeserializable ==
    /\ pc = "none"
    /\ last' = "create_serr"
    /\ reads' = {}
    /\ raised' = FALSE
    /\ UNCHANGED <<wallet, store, pc, d, dialogs, closedBy, sawUnlocked,
                   seeded, seedNow, ticks, quiet>>

\* show_timeout_wait_dialog while server.get raises inside __init__
CreateStoreDown ==
    /\ pc = "none"
    /\ init_raises(wallet, FALSE)
    /\ last' = "create_exc"
    /\ reads' = {<<wallet.keystores[
                     CHOOSE i \in 1..Len(wallet.keystores) :
                        /\ wallet.keystores[i].watching_only
                        /\ \A j \in 1..(i - 1) : ~wallet.keystores[j].watching_only].fp,
                   "_lock">>}
    /\ raised' = TRUE
    /\ UNCHANGED <<wallet, store, pc, d, dialogs, closedBy, sawUnlocked,
                   seeded, seedNow, ticks, quiet>>

\* show_timeout_wait_dialog: __init__ runs to its end, the dialog is
\* registered and shown
Create ==
    /\ pc = "none"
    /\ \E now \in Times, up \in BOOLEAN :
          /\ ~init_raises(wallet, up)
          /\ LET m0 == [Machine EXCEPT !.d = Blank]
                 m1 == init_seed(m0, wallet, store, now)
                 m2 == show(init_tail(m1, store, up))
             IN  /\ Commit(m2)
                 /\ seeded' = m1.d.time_left_int
                 /\ seedNow' = now
    /\ pc' = "live"
    /\ ticks' = 0
    /\ quiet' = 0
    /\ last' = "create"
    /\ UNCHANGED <<wallet, store>>

\* the QTimer fires: it is started in timer_start and never stopped
Tick ==
    /\ pc = "live"
    /\ d.timer
    /\ d.time_left_int > -MaxNeg
    /\ ticks < MaxTicks
    /\ \E up \in BOOLEAN : Commit(timer_timeout(Machine, store, up))
    /\ ticks' = ticks + 1
    /\ quiet' = IF ~d.visible THEN 0
                ELSE IF NoLockHeld(d.cosigner_list, store) /\ ~raised' THEN quiet + 1
                ELSE 0
    /\ last' = "tick"
    /\ UNCHANGED <<wallet, store, pc, seeded, seedNow>>

\* the Close button, the escape key (reject) or the owner calling close()
Cancel ==
    /\ pc = "live"
    /\ Commit(close(Machine, "user"))
    /\ last' = "cancel"
    /\ quiet' = 0
    /\ UNCHANGED <<wallet, store, pc, seeded, seedNow, ticks>>

\* the closed dialog is released by its owner and collected, its timer with it
Destroy ==
    /\ pc = "live"
    /\ ~d.visible
    /\ dialogs = <<>>
    /\ pc' = "gone"
    /\ d' = Blank
    /\ last' = "destroy"
    /\ reads' = {}
    /\ raised' = FALSE
    /\ closedBy' = "none"
    /\ sawUnlocked' = FALSE
    /\ seeded' = 0
    /\ seedNow' = 0
    /\ ticks' = 0
    /\ quiet' = 0
    /\ UNCHANGED <<wallet, store, dialogs>>

\* another cosigner process writes or clears a watched fingerprint's lock
SetLock ==
    /\ pc = "live"
    /\ \E h \in Fingerprints, v \in LockValues :
          /\ Watched(wallet, h)
          /\ v # store[<<h, "_lock">>]
          /\ store' = [store EXCEPT ![<<h, "_lock">>] = v]
          /\ quiet' = IF Truthy(v) THEN 0 ELSE quiet
    /\ UNCHANGED <<wallet, pc, d, dialogs, reads, raised, closedBy, sawUnlocked,
                   seeded, seedNow, ticks, last>>

\* another cosigner process writes or clears a watched fingerprint's name
SetName ==
    /\ pc = "live"
    /\ \E h \in Fingerprints : \E v \in {None, NameOf(h)} :
          /\ Watched(wallet, h)
          /\ v # store[<<h, "_name">>]
          /\ store' = [store EXCEPT ![<<h, "_name">>] = v]
    /\ UNCHANGED <<wallet, pc, d, dialogs, reads, raised, closedBy, sawUnlocked,
                   seeded, seedNow, ticks, quiet, last>>

Next ==
    \/ CreateUndeserializable
    \/ CreateStoreDown
    \/ Create
    \/ Tick
    \/ Cancel
    \/ Destroy
    \/ SetLock
    \/ SetName

Spec == Init /\ [][Next]_vars

TypeOK ==
    /\ pc \in {"none", "live", "gone"}
    /\ d.time_left_int \in Int
    /\ Len(dialogs) <= 1

\* ---------------------------------------------------------------- claims
\* a step that is one call of timer_timeout
IsTick == pc = "live" /\ ticks' = ticks + 1

\* a step that is one call of close() by the user or the owner
IsCancel == pc = "live" /\ last' = "cancel" /\ store' = store

\* the session states of the specification, read off the dialog
Active == pc = "live" /\ d.visible
Terminal == pc = "live" /\ ~d.visible
TimedOut == Terminal /\ d.timed_out
Cancelled == Terminal /\ ~d.timed_out /\ closedBy = "user"
Completed == Terminal /\ ~d.timed_out /\ closedBy = "update"

\* C1 as stated: time_left_int is >= 0 in every state of a session, and a
\* tick of a session that is not yet terminal never raises it.
C1_Original ==
    [][ /\ (pc = "live" => d.time_left_int >= 0)
        /\ (pc' = "live" => d'.time_left_int >= 0)
        /\ (IsTick /\ d.visible => d'.time_left_int <= d.time_left_int) ]_vars

\* C1 amended: time_left_int may be negative (a negative seed, or a tick from
\* 0 or below). A tick from a value >= 1 leaves it between 0 and the value
\* before minus 1; a tick from a value <= 0 leaves it at the value before
\* minus 1, or at 0 when that tick's poll finds no lock.
C1_TickCountdown ==
    [][ IsTick =>
          IF d.time_left_int >= 1
          THEN /\ 0 <= d'.time_left_int
               /\ d'.time_left_int <= d.time_left_int - 1
          ELSE \/ d'.time_left_int = d.time_left_int - 1
               \/ /\ d'.time_left_int = 0
                  /\ (d.time_left_int - 1) % 10 = 0
                  /\ \A h \in d.cosigner_list : ~Truthy(store[<<h, "_lock">>]) ]_vars

\* a session seeded with -5 ticked down to -10, where its poll found no lock
\* and raised the countdown to 0
C1_Witness ==
    /\ pc = "live"
    /\ last = "tick"
    /\ seeded = -5
    /\ ticks = 5
    /\ d.time_left_int = 0

\* C2: a tick of an Active session whose countdown after the decrement is a
\* multiple of 10 and whose poll finds no lock on any watched fingerprint
\* leaves the session closed, out of the registry, with time_left_int = 0
\* (timed_out is set as well exactly when the decrement itself reached 0).
C2_NoLockCompletes ==
    [][ ( /\ IsTick
          /\ d.visible
          /\ (d.time_left_int - 1) % 10 = 0
          /\ ~raised'
          /\ \A h \in d.cosigner_list : ~Truthy(store[<<h, "_lock">>]) )
        => /\ ~d'.visible
           /\ d'.time_left_int = 0
           /\ dialogs' = <<>>
           /\ d'.timed_out = (d.time_left_int = 1) ]_vars

\* the poll at countdown 10 of a session seeded with 12 closed it
C2_Witness ==
    /\ Completed
    /\ last = "tick"
    /\ seeded = 12
    /\ ticks = 2
    /\ d.time_left_int = 0
    /\ d.cosigner_list # {}

\* C3: a session seeded with n > 0 whose polls all found a lock and which was
\* not cancelled is open and not timed out before tick n, and timed out and
\* closed from tick n on, the countdown being n minus the ticks taken.
C3_TimedOutAtSeed ==
    (pc = "live" /\ seeded > 0 /\ ~sawUnlocked /\ closedBy # "user") =>
        /\ d.time_left_int = seeded - ticks
        /\ ticks < seeded => d.visible /\ ~d.timed_out
        /\ ticks >= seeded => ~d.visible /\ d.timed_out /\ closedBy = "timeout"

\* the session seeded with 12 has just taken its 12th tick
C3_Witness ==
    /\ TimedOut
    /\ seeded = 12
    /\ ticks = 12
    /\ ~sawUnlocked
    /\ ~raised
    /\ d.time_left_int = 0
    /\ last = "tick"

\* C4 as stated: a session seeded with a negative countdown is TimedOut after
\* its first tick, even while the lock is reported as held.
C4_NegativeSeedTimesOut ==
    (pc = "live" /\ seeded < 0 /\ ticks >= 1 /\ ~sawUnlocked /\ closedBy # "user")
        => TimedOut

\* C5 as stated: once the session is terminal no tick runs for it, it reads
\* nothing from the store and its fields no longer change.
C5_TerminalIsInert ==
    [][ (Terminal /\ pc' = "live") =>
            /\ ticks' = ticks
            /\ d' = d
            /\ (last' \in {"tick", "create"} => reads' = {}) ]_vars

\* C6 as stated: a failing read of the store never leaves the handler as an
\* exception, and a creation whose reads failed still yields a session.
C6_StoreFailureContained ==
    /\ ~raised
    /\ last = "create_exc" => pc = "live"

\* C7 as stated: a poll made on a tick that finds a watched fingerprint with a
\* lock and a non-empty name sets currently_signing to such a name.
C7_PollUpdatesName ==
    [][ ( /\ IsTick
          /\ reads' # {}
          /\ ~raised'
          /\ \E h \in d.cosigner_list :
                Truthy(store[<<h, "_lock">>]) /\ Truthy(store[<<h, "_name">>]) )
        => \E h \in d.cosigner_list :
              /\ Truthy(store[<<h, "_lock">>])
              /\ Truthy(store[<<h, "_name">>])
              /\ d'.currently_signing = store[<<h, "_name">>] ]_vars

\* C8: once currently_signing is non-empty, no step of a live session (tick,
\* poll, cancel, change of the store) changes it.
C8_NameSticky ==
    [][ (pc = "live" /\ pc' = "live" /\ d.currently_signing # None)
        => d'.currently_signing = d.currently_signing ]_vars

\* a tick polled the store after the lock and the name of the signer shown
\* were removed from it
C8_Witness ==
    /\ pc = "live"
    /\ last = "tick"
    /\ reads # {}
    /\ sawUnlocked
    /\ d.currently_signing = "alice"
    /\ \A h \in Fingerprints :
          Watched(wallet, h) =>
             store[<<h, "_lock">>] = None /\ store[<<h, "_name">>] = None

\* C9: close() on an open session hides it and takes it out of the registry
\* without touching the countdown, timed_out or the name, leaving it Cancelled;
\* on a session that is already closed it raises nothing and changes neither
\* the dialog nor the registry.
C9_CancelIdempotent ==
    [][ IsCancel =>
          /\ ~raised'
          /\ ~d'.visible
          /\ dialogs' = <<>>
          /\ d' = [d EXCEPT !.visible = FALSE]
          /\ d.visible => closedBy' = "user" /\ ~d'.timed_out
          /\ ~d.visible => d' = d /\ dialogs' = dialogs /\ closedBy' = closedBy ]_vars

\* close() was called on a session that had already timed out
C9_Witness ==
    /\ TimedOut
    /\ last = "cancel"
    /\ closedBy = "timeout"
    /\ d.time_left_int < 0

\* the countdown __init__ is expected to seed for wallet w over store st
RECURSIVE LastHeld(_, _, _)
LastHeld(w, st, i) ==
    IF i = 0 THEN 0
    ELSE IF /\ w.multisig
            /\ w.keystores[i].watching_only
            /\ Truthy(st[<<w.keystores[i].fp, "_lock">>])
         THEN i
         ELSE LastHeld(w, st, i - 1)

ExpectedSeed(w, st, now) ==
    LET i == LastHeld(w, st, Len(w.keystores))
    IN  IF i = 0 THEN 600
        ELSE 600 - (now - int(st[<<w.keystores[i].fp, "_lock">>]))

\* C10: the countdown seeded by __init__ is 600 when no watched lock value is
\* truthy, else 600 - (current_time - expiry) of the last watched keystore,
\* in iteration order, whose lock value is truthy, unclamped.
C10_SeedLastWins ==
    [][ (pc = "none" /\ pc' = "live")
        => seeded' = ExpectedSeed(wallet, store, seedNow') ]_vars

\* two watched locks with different expiries: the later one in iteration
\* order gives the smaller, negative, seed
C10_Witness ==
    /\ pc = "live"
    /\ last = "create"
    /\ d.locks = << <<"h1", "412">>, <<"h2", "397">> >>
    /\ seedNow = 1000
    /\ seeded = -3
    /\ d.time_left_int = -3

\* a step that is one call of show_timeout_wait_dialog whose transaction
\* failed to deserialize
IsFailedCreate == pc = "none" /\ last' = "create_serr"

\* C11: when deserializing the transaction fails, no dialog object is kept,
\* `dialogs` is unchanged, no timer runs, no key of the store has been read
\* and the SerializationError does not leave show_timeout_wait_dialog.
C11_NoSessionOnSerializationError ==
    [][ IsFailedCreate =>
          /\ pc' = "none"
          /\ d' = Blank
          /\ ~d'.timer
          /\ dialogs' = dialogs
          /\ reads' = {}
          /\ ~raised' ]_vars

\* a creation for a wallet with a watched keystore failed to deserialize
C11_Witness ==
    /\ last = "create_serr"
    /\ pc = "none"
    /\ dialogs = <<>>
    /\ \E h \in Fingerprints : Watched(wallet, h)

\* the terminal state of a closed session
TerminalState ==
    IF d.timed_out THEN "TimedOut"
    ELSE IF closedBy = "user" THEN "Cancelled"
    ELSE IF closedBy = "update" THEN "Completed"
    ELSE "unknown"

\* C12: a closed session is in exactly one of TimedOut, Completed, Cancelled;
\* it stays closed and in that state under every later tick, poll, change of
\* the store and close(); and once close() has run without timed_out being
\* set, timed_out stays False.
C12_TerminalStateStable ==
    /\ [](Terminal =>
            /\ TerminalState \in {"TimedOut", "Completed", "Cancelled"}
            /\ ~(TimedOut /\ Completed) /\ ~(TimedOut /\ Cancelled)
            /\ ~(Completed /\ Cancelled)
            /\ TimedOut \/ Completed \/ Cancelled)
    /\ [][ (Terminal /\ pc' = "live") =>
              /\ ~d'.visible
              /\ TerminalState' = TerminalState ]_vars
    /\ [][ (pc = "live" /\ pc' = "live" /\ closedBy \in {"update", "user"}
              /\ ~d.timed_out) => ~d'.timed_out ]_vars

\* a cancelled session whose timer went on and decremented the countdown to 0
C12_Witness ==
    /\ Cancelled
    /\ last = "tick"
    /\ ~sawUnlocked
    /\ seeded = 12
    /\ ticks = 12
    /\ d.time_left_int = 0

\* C13: a tick reads the store only when the countdown after the decrement
\* is a multiple of 10, and then only '_lock' keys of watched fingerprints;
\* every other tick reads nothing, raises nothing and changes only
\* time_left_int, by exactly -1.
C13_PollOnlyOnCadence ==
    [][ IsTick =>
          /\ reads' # {} => (d.time_left_int - 1) % 10 = 0
          /\ reads' \subseteq {<<h, "_lock">> : h \in d.cosigner_list}
          /\ (d.time_left_int - 1) % 10 # 0 =>
                /\ reads' = {}
                /\ ~raised'
                /\ d' = [d EXCEPT !.time_left_int = @ - 1]
                /\ dialogs' = dialogs
                /\ closedBy' = closedBy
                /\ sawUnlocked' = sawUnlocked ]_vars

\* an open session with a watched keystore ticked from 12 to 11 while the
\* store held no lock, and read nothing
C13_Witness ==
    /\ Active
    /\ last = "tick"
    /\ reads = {}
    /\ seeded = 12
    /\ d.time_left_int = 11
    /\ d.cosigner_list # {}
    /\ NoLockHeld(d.cosigner_list, store)

\* the fingerprints of all keystores of wallet w
AllFingerprints(w) == {w.keystores[i].fp : i \in 1..Len(w.keystores)}

\* the keys of the dict self.locks
LockKeys == {d.locks[i][1] : i \in 1..Len(d.locks)}

\* C14 as stated: for every wallet, cosigner_list and keyhashes are disjoint
\* and together hold the fingerprint of every keystore, the keys of locks are
\* cosigner_list, and no key of a signer's fingerprint is read.
C14_Original ==
    pc = "live" =>
        /\ d.cosigner_list \cap d.keyhashes = {}
        /\ d.cosigner_list \cup d.keyhashes = AllFingerprints(wallet)
        /\ LockKeys = d.cosigner_list
        /\ \A k \in reads : k[1] \notin d.keyhashes

\* C14 amended: for a Multisig_Wallet, cosigner_list holds the fingerprints of
\* the watching-only keystores and keyhashes those of the others, so they are
\* disjoint and cover every keystore; for any other wallet both are empty.
\* The keys of locks are cosigner_list, and every key read, at creation or on
\* a tick, belongs to a watching-only keystore.
C14_WatchedSignerPartition ==
    /\ pc = "live" =>
          /\ d.cosigner_list \cap d.keyhashes = {}
          /\ wallet.multisig =>
                /\ d.cosigner_list = {h \in AllFingerprints(wallet) : Watched(wallet, h)}
                /\ d.keyhashes = {h \in AllFingerprints(wallet) : ~Watched(wallet, h)}
          /\ ~wallet.multisig => d.cosigner_list = {} /\ d.keyhashes = {}
          /\ LockKeys = d.cosigner_list
          /\ \A k \in reads : k[1] \in d.cosigner_list /\ k[1] \notin d.keyhashes
    /\ \A k \in reads : Watched(wallet, k[1]) /\ wallet.multisig

\* a dialog for a wallet with one watched and one signing keystore has just
\* been created and has read the watched keystore's lock and name only
C14_Witness ==
    /\ pc = "live"
    /\ last = "create"
    /\ d.cosigner_list = {"h1"}
    /\ d.keyhashes = {"h2"}
    /\ reads = {<<"h1", "_lock">>, <<"h1", "_name">>}
    /\ Truthy(store[<<"h2", "_lock">>])

\* C15 as stated: a dialog held in `dialogs` has never closed itself, and a
\* dialog that has closed itself is neither shown nor held in `dialogs`.
C15_RegistryHoldsOpenOnly ==
    pc = "live" =>
        /\ dialogs # <<>> => closedBy = "none" /\ d.visible
        /\ closedBy # "none" => ~d.visible /\ dialogs = <<>>

\* the number of ticks within which a release is noticed
ReleaseTicks == 10

\* C16: a session is never still open after 10 consecutive ticks, none of
\* them failing, during which no watched lock was in the store, whatever its
\* countdown was (positive, zero or negative) when the locks went away.
C16_ClosedWithinTenTicks ==
    /\ Active => quiet < ReleaseTicks
    /\ quiet <= ReleaseTicks

\* a session whose countdown stood at 0 with the lock held saw the lock go
\* and closed itself on the tenth tick after that, at -10
C16_Witness ==
    /\ Completed
    /\ last = "tick"
    /\ quiet = ReleaseTicks
    /\ seeded = 0
    /\ ticks = 10
    /\ d.time_left_int = 0

\* C17: timed_out is False after creation; a step sets it exactly when it is
\* a tick of an open dialog that decrements the countdown to 0, also when that
\* tick's poll finds no lock; forcing the countdown to 0 and close() never set
\* it; once True it stays True.
C17_TimedOutIffDecrementToZero ==
    [][ /\ (pc = "none" /\ pc' = "live") => ~d'.timed_out
        /\ (pc = "live" /\ pc' = "live") =>
              (d'.timed_out <=>
                 \/ d.timed_out
                 \/ IsTick /\ d.visible /\ d.time_left_int = 1) ]_vars

\* the tick that decremented the countdown to 0 found no lock in its poll and
\* the session ended as TimedOut
C17_Witness ==
    /\ TimedOut
    /\ last = "tick"
    /\ sawUnlocked
    /\ reads # {}
    /\ ~raised
    /\ closedBy = "timeout"
    /\ seeded = 12
    /\ ticks = 12
    /\ d.time_left_int = 0

====
